---------------------------- MODULE Spec2Model ----------------------------
(***************************************************************************)
(* Model of wecom.go (package wecom): one *wecom sender shared by          *)
(* concurrent callers of Text and File.  Every caller runs send, which     *)
(* fetches the access token lazily under initLock, submits the request     *)
(* (getResp), and on errcode 42001 / 40014 / 41001 either refreshes the    *)
(* token under pushLock or only flips isFirstAccessTokenErr, and then      *)
(* calls itself again.                                                     *)
(*                                                                         *)
(* The recursive call of send is the last thing its caller frame does      *)
(* (lines 124-127, 131-134 and 141 hand resp, err back unchanged), so the  *)
(* recursion is modelled as a jump back to the start of send.              *)
(*                                                                         *)
(* The provider (qyapi.weixin.qq.com) is the environment: each HTTP call   *)
(* is answered with any outcome the code distinguishes.                    *)
(***************************************************************************)
EXTENDS Integers, Sequences, FiniteSets, TLC

\* ------------------------------------------------------------------ bounds
MaxOps == 2          \* public operations (Text / File) started over the run
MaxBuilds == 3       \* submissions (getResp calls) of one dispatch
MaxFetch == 3        \* calls of the token endpoint over the whole run
NumMedia == 2        \* distinct media_id values the provider hands out
NumMsg == 2          \* distinct errmsg texts the provider hands out

\* The concurrent callers of the sender.
Procs == {1, 2}

\* ------------------------------------------------------- program constants
ErrExpired == 42001
ErrInvalid == 40014
ErrMissing == 41001
ErrOther == 40003    \* stands for every other non-zero errcode

CredErr == {ErrExpired, ErrInvalid, ErrMissing}
NoCode == -1         \* r of a frame that has not read a response

\* Token values.  The code compares a token only with "", so the model keeps
\* "" (no token, or an empty access_token), "token" (any non-empty token) and
\* "torn": what an unsynchronised access of the string may leave or see while
\* another goroutine is assigning it.
Tokens == {"", "token", "torn"}

\* Media ids: 0 stands for "media_id absent or not a string".
MediaIds == 1..NumMedia
ErrMsgs == 1..NumMsg

\* Results and error values are pairs <<kind, errmsg>>: NoRes while nothing was
\* returned, Ok for (resp, nil), <<"transport", 0>> for a failed HTTP
\* exchange, <<"decode", 0>> for a json.Unmarshal error and <<"errmsg", m>>
\* for errors.New of the provider's errmsg m.
NoRes == <<"none", 0>>
Ok == <<"ok", 0>>

VARIABLES
    accessToken,            \* w.accessToken
    isFirstAccessTokenErr,  \* w.isFirstAccessTokenErr
    pushLock,               \* holder of w.pushLock, 0 when free
    initLock,               \* holder of w.initLock, 0 when free
    pc,                     \* position of each caller
    req,                    \* which getResp closure the caller's send runs
    urlTok,                 \* token in the URL of the submission in flight
    payloadMedia,           \* media_id in the payload of the submission in flight
    errCode,                \* r.ErrCode of the response being decided on
    errMsg,                 \* r.ErrMsg of that response
    pend,                   \* a.AccessToken decoded by getAccessToken
    sendRes,                \* what send returned: NoRes, Ok or an error value
    mediaRet,               \* media_id of the upload's errcode-0 response
    mediaID,                \* m of File: the media id getMediaID returned
    \* ---- history (not program state)
    fetches,                \* calls of the token endpoint so far
    ops,                    \* public operations started so far
    builds,                 \* getResp calls of the caller's current dispatch
    prev,                   \* how this dispatch handled its latest credential
                            \* error: "none", "refresh", "retry"
    stale,                  \* accessToken was stored again since the caller's
                            \* latest submission was built
    own,                    \* accessToken is what the caller's refresh stored
    calls,                  \* provider calls of the current public operation,
                            \* kept while the operation is on its happy path
    happy,                  \* every answer of the current operation was good
    emptyIssued             \* some token fetch was answered with errcode 0
                            \* and an empty access_token

shared == <<accessToken, isFirstAccessTokenErr, pushLock, initLock>>
local == <<req, urlTok, payloadMedia, errCode, errMsg, pend, sendRes,
           mediaRet, mediaID>>
hist == <<fetches, ops, builds, prev, stale, own, calls, happy, emptyIssued>>
vars == <<shared, pc, local, hist>>

\* New(corpid, corpsecret): no token, both locks free, flag true.
Init ==
    /\ accessToken = ""
    /\ isFirstAccessTokenErr = TRUE
    /\ pushLock = 0
    /\ initLock = 0
    /\ pc = [p \in Procs |-> "idle"]
    /\ req = [p \in Procs |-> "none"]
    /\ urlTok = [p \in Procs |-> ""]
    /\ payloadMedia = [p \in Procs |-> 0]
    /\ errCode = [p \in Procs |-> NoCode]
    /\ errMsg = [p \in Procs |-> 0]
    /\ pend = [p \in Procs |-> ""]
    /\ sendRes = [p \in Procs |-> NoRes]
    /\ mediaRet = [p \in Procs |-> 0]
    /\ mediaID = [p \in Procs |-> 0]
    /\ fetches = 0
    /\ ops = 0
    /\ builds = [p \in Procs |-> 0]
    /\ prev = [p \in Procs |-> "none"]
    /\ stale = [p \in Procs |-> FALSE]
    /\ own = [p \in Procs |-> FALSE]
    /\ calls = [p \in Procs |-> <<>>]
    /\ happy = [p \in Procs |-> TRUE]
    /\ emptyIssued = FALSE

\* ------------------------------------------------------- public operations
\* A caller that is not inside an operation starts one.
Begin(p, kind) ==
    /\ UNCHANGED emptyIssued
    /\ pc[p] = "idle"
    /\ ops < MaxOps
    /\ pc' = [pc EXCEPT ![p] = "initLock"]
    /\ req' = [req EXCEPT ![p] = kind]
    /\ ops' = ops + 1
    /\ UNCHANGED <<shared, urlTok, payloadMedia, errCode, errMsg, pend,
                   sendRes, mediaRet, mediaID, fetches, builds, prev, stale,
                   own, calls, happy>>

\* Text: send(buf) with the message-send closure.
Text(p) == Begin(p, "text")

\* File: first getMediaID, i.e. send(buf) with the media-upload closure.
File(p) == Begin(p, "upload")

\* ----------------------------------------------------- send: lazy fetch
\* Variant of SendInitLock: the caller goes on to the check without waiting
\* for the lock to be free.
SendInitLockNoWait(p) ==
    /\ pc[p] = "initLock"
    /\ initLock' = p
    /\ pc' = [pc EXCEPT ![p] = "initCheck"]
    /\ UNCHANGED <<accessToken, isFirstAccessTokenErr, pushLock, local, hist>>

\* w.initLock.Lock() (line 79)
SendInitLock(p) ==
    /\ pc[p] = "initLock"
    /\ initLock = 0
    /\ initLock' = p
    /\ pc' = [pc EXCEPT ![p] = "initCheck"]
    /\ UNCHANGED <<accessToken, isFirstAccessTokenErr, pushLock, local, hist>>

\* Variant of InitCheckGuard: the closure fetches whether or not a token is
\* stored.
InitCheckAlways(p) == TRUE

\* if w.accessToken == "" (line 81)
InitCheckGuard(p) == accessToken = ""

\* Lines 81-88: without a token getAccessToken sends its request; with one
\* the closure returns nil and the deferred Unlock runs.
SendInitCheck(p) ==
    /\ UNCHANGED emptyIssued
    /\ pc[p] = "initCheck"
    /\ IF InitCheckGuard(p)
       THEN /\ fetches < MaxFetch
            /\ fetches' = fetches + 1
            /\ pc' = [pc EXCEPT ![p] = "initHttp"]
            /\ UNCHANGED initLock
       ELSE /\ initLock' = 0
            /\ pc' = [pc EXCEPT ![p] = "build"]
            /\ UNCHANGED fetches
    /\ UNCHANGED <<accessToken, isFirstAccessTokenErr, pushLock, local, ops,
                   builds, prev, stale, own, calls, happy>>

\* The answers of the token endpoint as getAccessToken tells them apart
\* (lines 55-74), <<outcome, errmsg, token>>: "transport" (Do or ReadAll
\* failed), "decode" (json.Unmarshal failed), "errcode" (a.Errcode # 0, with
\* a.Errmsg), or "ok" with a.AccessToken, which is "" when the body carries
\* no access_token.
TokenAnswers ==
    {<<"transport", 0, "">>, <<"decode", 0, "">>,
     <<"ok", 0, "">>, <<"ok", 0, "token">>}
      \cup {<<"errcode", m, "">> : m \in ErrMsgs}

\* The error value getAccessToken returns for a failed outcome (lines 57,
\* 63, 67, 70).
TokenError(outcome, msg) ==
    IF outcome = "errcode" THEN <<"errmsg", msg>> ELSE <<outcome, 0>>

\* Variant of SendFails: a failed fetch or submission is tried again by
\* re-entering send.
SendFailsRetries(p, err) ==
    /\ sendRes' = [sendRes EXCEPT ![p] = err]
    /\ pc' = [pc EXCEPT ![p] = "initLock"]
    /\ UNCHANGED <<builds, prev, stale, own>>
    /\ happy' = [happy EXCEPT ![p] = FALSE]
    /\ calls' = [calls EXCEPT ![p] = <<>>]

\* send returns (nil, err) before it decides on a response (lines 90, 95,
\* 102, 122): the frames of the dispatch are gone.
SendFails(p, err) ==
    /\ sendRes' = [sendRes EXCEPT ![p] = err]
    /\ pc' = [pc EXCEPT ![p] = "returned"]
    /\ builds' = [builds EXCEPT ![p] = 0]
    /\ prev' = [prev EXCEPT ![p] = "none"]
    /\ stale' = [stale EXCEPT ![p] = FALSE]
    /\ own' = [own EXCEPT ![p] = FALSE]
    /\ happy' = [happy EXCEPT ![p] = FALSE]
    /\ calls' = [calls EXCEPT ![p] = <<>>]

\* getAccessToken called from the init closure: the answer arrives.  A failed
\* fetch returns its error through lines 83-85 and 89-91 (initLock released
\* by the deferred Unlock); a good one goes on to line 73.
InitFetchResp(p) ==
    /\ pc[p] = "initHttp"
    /\ \E a \in TokenAnswers :
          /\ emptyIssued' = (emptyIssued \/ (a[1] = "ok" /\ a[3] = ""))
          /\ IF a[1] = "ok"
             THEN /\ pend' = [pend EXCEPT ![p] = a[3]]
                  /\ pc' = [pc EXCEPT ![p] = "initStore"]
                  /\ happy' = [happy EXCEPT ![p] = @ /\ a[3] # ""]
                  /\ calls' = [calls EXCEPT ![p] = IF a[3] # "" THEN @ ELSE <<>>]
                  /\ UNCHANGED <<initLock, sendRes, builds, prev, stale, own>>
             ELSE /\ initLock' = 0
                  /\ SendFails(p, TokenError(a[1], a[2]))
                  /\ UNCHANGED pend
    /\ UNCHANGED <<accessToken, isFirstAccessTokenErr, pushLock, req, urlTok,
                   payloadMedia, errCode, errMsg, mediaRet, mediaID, fetches,
                   ops>>

\* Some other caller is at the assignment of line 73.
OtherStores(p) ==
    \E q \in Procs \ {p} : pc[q] \in {"initStore", "refreshStore"}

\* What line 73 leaves in w.accessToken: the decoded token, or a torn string
\* when another goroutine assigns the field at the same time.
StoredToken(p) == {pend[p]} \cup (IF OtherStores(p) THEN {"torn"} ELSE {})

\* History: a store makes the token of every caller's latest submission an
\* old one, and the stored token p's own when p's refresh stored it.
Stored(p, mine) ==
    /\ stale' = [q \in Procs |-> builds[q] > 0]
    /\ own' = [q \in Procs |-> q = p /\ mine]

\* w.accessToken = a.AccessToken (line 73) in the init closure, then the
\* deferred Unlock.
InitStore(p) ==
    /\ UNCHANGED emptyIssued
    /\ pc[p] = "initStore"
    /\ \E t \in StoredToken(p) : accessToken' = t
    /\ Stored(p, FALSE)
    /\ pend' = [pend EXCEPT ![p] = ""]
    /\ initLock' = 0
    /\ pc' = [pc EXCEPT ![p] = "build"]
    /\ UNCHANGED <<isFirstAccessTokenErr, pushLock, req, urlTok, payloadMedia,
                   errCode, errMsg, sendRes, mediaRet, mediaID, fetches, ops,
                   builds, prev, calls, happy>>

\* ------------------------------------------------------ send: submission
\* The token a closure reads when it composes its URL (lines 152, 201, 266).
\* The read holds no lock: next to a goroutine that is assigning the field it
\* may also see a torn string.
ReadToken(p) == {accessToken} \cup (IF OtherStores(p) THEN {"torn"} ELSE {})

\* Variant of PayloadMedia: File's closure puts a fixed media id into its
\* payload.
PayloadMediaFixed(p) == IF req[p] = "filemsg" THEN 1 ELSE 0

\* The media_id the closure puts into its payload: File's closure uses m, the
\* value getMediaID returned (line 272); the other closures carry none.
PayloadMedia(p) == IF req[p] = "filemsg" THEN mediaID[p] ELSE 0

\* resp, err := getResp() (line 93), first half: the closure composes the
\* URL and the body and hands the request to http.DefaultClient.Do.
GetResp(p) ==
    /\ UNCHANGED emptyIssued
    /\ pc[p] = "build"
    /\ \E t \in ReadToken(p) : urlTok' = [urlTok EXCEPT ![p] = t]
    /\ payloadMedia' = [payloadMedia EXCEPT ![p] = PayloadMedia(p)]
    /\ builds' = [builds EXCEPT ![p] = @ + 1]
    /\ stale' = [stale EXCEPT ![p] = FALSE]
    /\ own' = [own EXCEPT ![p] = FALSE]
    /\ calls' = [calls EXCEPT ![p] = IF happy[p] THEN Append(@, req[p]) ELSE @]
    /\ pc' = [pc EXCEPT ![p] = "http"]
    /\ UNCHANGED <<shared, req, errCode, errMsg, pend, sendRes, mediaRet,
                   mediaID, fetches, ops, prev, happy>>

\* getResp's second half and lines 94-103: the exchange fails (the closure
\* returns the error), the body does not decode into r (line 101), or it
\* does.
HttpResp(p) ==
    /\ UNCHANGED emptyIssued
    /\ pc[p] = "http"
    /\ \/ /\ \E e \in {"transport", "decode"} : SendFails(p, <<e, 0>>)
       \/ /\ pc' = [pc EXCEPT ![p] = "pushLock"]
          /\ UNCHANGED <<sendRes, builds, prev, stale, own, happy, calls>>
    /\ urlTok' = [urlTok EXCEPT ![p] = ""]
    /\ payloadMedia' = [payloadMedia EXCEPT ![p] = 0]
    /\ UNCHANGED <<shared, req, errCode, errMsg, pend, mediaRet, mediaID,
                   fetches, ops>>

\* ------------------------------------------------- send: decision, recovery
\* The decoded bodies, <<errcode, errmsg, media_id>>.  A body with errcode 0
\* that answers an upload carries a media_id or none.
Bodies(kind) ==
    {<<0, 0, m>> : m \in IF kind = "upload" THEN {0} \cup MediaIds ELSE {0}}
      \cup {<<c, 0, 0>> : c \in CredErr}
      \cup {<<ErrOther, m, 0>> : m \in ErrMsgs}

\* w.pushLock.Lock() (line 105).  The fields of the decoded body are recorded
\* here, where the code first looks at them (line 106).  The provider answers
\* with a credential error only while the dispatch is below MaxBuilds
\* submissions.
SendPushLock(p) ==
    /\ UNCHANGED emptyIssued
    /\ pc[p] = "pushLock"
    /\ pushLock = 0
    /\ pushLock' = p
    /\ \E b \in Bodies(req[p]) :
          /\ b[1] \in CredErr => builds[p] < MaxBuilds
          /\ errCode' = [errCode EXCEPT ![p] = b[1]]
          /\ errMsg' = [errMsg EXCEPT ![p] = b[2]]
          /\ mediaRet' = [mediaRet EXCEPT ![p] =
                            IF req[p] = "upload" THEN b[3] ELSE @]
          /\ happy' = [happy EXCEPT ![p] =
                         @ /\ b[1] = 0 /\ (req[p] = "upload" => b[3] # 0)]
    /\ calls' = [calls EXCEPT ![p] = IF happy'[p] THEN @ ELSE <<>>]
    /\ pc' = [pc EXCEPT ![p] = "decide"]
    /\ UNCHANGED <<accessToken, isFirstAccessTokenErr, initLock, req, urlTok,
                   payloadMedia, pend, sendRes, mediaID, fetches, ops, builds,
                   prev, stale, own>>

\* Variant of IsCredErr: every non-zero errcode enters the recovery.
IsCredErrAnyNonZero(c) == c # 0

\* r.ErrCode == 42001 || r.ErrCode == 40014 || r.ErrCode == 41001 (line 108)
IsCredErr(c) == c \in CredErr

\* if w.isFirstAccessTokenErr (line 109)
RefreshGuard(p) == isFirstAccessTokenErr

\* Variant of SendReturns: send returns from its decision without the Unlock.
SendReturnsLocked(p, res) ==
    /\ UNCHANGED pushLock
    /\ sendRes' = [sendRes EXCEPT ![p] = res]
    /\ errCode' = [errCode EXCEPT ![p] = NoCode]
    /\ errMsg' = [errMsg EXCEPT ![p] = 0]
    /\ builds' = [builds EXCEPT ![p] = 0]
    /\ prev' = [prev EXCEPT ![p] = "none"]
    /\ stale' = [stale EXCEPT ![p] = FALSE]
    /\ own' = [own EXCEPT ![p] = FALSE]
    /\ pc' = [pc EXCEPT ![p] = "returned"]

\* send returns from its decision: Unlock, and the frames of the dispatch
\* are gone.
SendReturns(p, res) ==
    /\ pushLock' = 0
    /\ sendRes' = [sendRes EXCEPT ![p] = res]
    /\ errCode' = [errCode EXCEPT ![p] = NoCode]
    /\ errMsg' = [errMsg EXCEPT ![p] = 0]
    /\ builds' = [builds EXCEPT ![p] = 0]
    /\ prev' = [prev EXCEPT ![p] = "none"]
    /\ stale' = [stale EXCEPT ![p] = FALSE]
    /\ own' = [own EXCEPT ![p] = FALSE]
    /\ pc' = [pc EXCEPT ![p] = "returned"]

\* Variant of SendOk: a good response also puts the flag back to true.
SendOkResetsFlag(p) ==
    /\ UNCHANGED emptyIssued
    /\ pc[p] = "decide"
    /\ errCode[p] = 0
    /\ SendReturns(p, Ok)
    /\ isFirstAccessTokenErr' = TRUE
    /\ UNCHANGED <<accessToken, initLock, req, urlTok, payloadMedia, pend,
                   mediaRet, mediaID, fetches, ops, calls, happy>>

\* Lines 106-107 and 141: errcode 0, Unlock, return resp, nil.
SendOk(p) ==
    /\ UNCHANGED emptyIssued
    /\ pc[p] = "decide"
    /\ errCode[p] = 0
    /\ SendReturns(p, Ok)
    /\ UNCHANGED <<accessToken, isFirstAccessTokenErr, initLock, req, urlTok,
                   payloadMedia, pend, mediaRet, mediaID, fetches, ops, calls,
                   happy>>

\* Variant of SendRefresh: pushLock is released before getAccessToken sends
\* its request.
SendRefreshUnlocked(p) ==
    /\ pc[p] = "decide"
    /\ errCode[p] # 0
    /\ IsCredErr(errCode[p])
    /\ RefreshGuard(p)
    /\ fetches < MaxFetch
    /\ isFirstAccessTokenErr' = FALSE
    /\ fetches' = fetches + 1
    /\ pushLock' = 0
    /\ prev' = [prev EXCEPT ![p] = "refresh"]
    /\ errCode' = [errCode EXCEPT ![p] = NoCode]
    /\ pc' = [pc EXCEPT ![p] = "refreshHttp"]
    /\ UNCHANGED <<accessToken, initLock, req, urlTok, payloadMedia, errMsg,
                   pend, sendRes, mediaRet, mediaID, ops, builds, stale, own,
                   calls, happy, emptyIssued>>

\* Lines 109-119: the flag is true; it is set to false and getAccessToken
\* sends its request, pushLock held.
SendRefresh(p) ==
    /\ UNCHANGED emptyIssued
    /\ pc[p] = "decide"
    /\ errCode[p] # 0
    /\ IsCredErr(errCode[p])
    /\ RefreshGuard(p)
    /\ fetches < MaxFetch
    /\ isFirstAccessTokenErr' = FALSE
    /\ fetches' = fetches + 1
    /\ prev' = [prev EXCEPT ![p] = "refresh"]
    /\ errCode' = [errCode EXCEPT ![p] = NoCode]
    /\ pc' = [pc EXCEPT ![p] = "refreshHttp"]
    /\ UNCHANGED <<accessToken, pushLock, initLock, req, urlTok, payloadMedia,
                   errMsg, pend, sendRes, mediaRet, mediaID, ops, builds,
                   stale, own, calls, happy>>

\* Variant of SendNoRefresh: the branch goes on to its recursive send without
\* the Unlock of line 129.
SendNoRefreshLocked(p) ==
    /\ pc[p] = "decide"
    /\ errCode[p] # 0
    /\ IsCredErr(errCode[p])
    /\ ~RefreshGuard(p)
    /\ prev' = [prev EXCEPT ![p] = "retry"]
    /\ errCode' = [errCode EXCEPT ![p] = NoCode]
    /\ pc' = [pc EXCEPT ![p] = "setFirst"]
    /\ UNCHANGED <<shared, req, urlTok, payloadMedia, errMsg, pend, sendRes,
                   mediaRet, mediaID, fetches, ops, builds, stale, own, calls,
                   happy, emptyIssued>>

\* Lines 128-129: the flag is false; Unlock.  The flag is written next, by
\* SendSetFirst, after the lock is released.
SendNoRefresh(p) ==
    /\ UNCHANGED emptyIssued
    /\ pc[p] = "decide"
    /\ errCode[p] # 0
    /\ IsCredErr(errCode[p])
    /\ ~RefreshGuard(p)
    /\ pushLock' = 0
    /\ prev' = [prev EXCEPT ![p] = "retry"]
    /\ errCode' = [errCode EXCEPT ![p] = NoCode]
    /\ pc' = [pc EXCEPT ![p] = "setFirst"]
    /\ UNCHANGED <<accessToken, isFirstAccessTokenErr, initLock, req, urlTok,
                   payloadMedia, errMsg, pend, sendRes, mediaRet, mediaID,
                   fetches, ops, builds, stale, own, calls, happy>>

\* Lines 136-138: any other errcode; Unlock, return errors.New(r.ErrMsg).
SendOtherErr(p) ==
    /\ UNCHANGED emptyIssued
    /\ pc[p] = "decide"
    /\ errCode[p] # 0
    /\ ~IsCredErr(errCode[p])
    /\ SendReturns(p, <<"errmsg", errMsg[p]>>)
    /\ UNCHANGED <<accessToken, isFirstAccessTokenErr, initLock, req, urlTok,
                   payloadMedia, pend, mediaRet, mediaID, fetches, ops, calls,
                   happy>>

\* getAccessToken called at line 119: the answer arrives.  A failed fetch
\* leaves through lines 120-123 (Unlock, return the error).
RefreshResp(p) ==
    /\ pc[p] = "refreshHttp"
    /\ \E a \in TokenAnswers :
          /\ emptyIssued' = (emptyIssued \/ (a[1] = "ok" /\ a[3] = ""))
          /\ IF a[1] = "ok"
             THEN /\ pend' = [pend EXCEPT ![p] = a[3]]
                  /\ pc' = [pc EXCEPT ![p] = "refreshStore"]
                  /\ UNCHANGED <<pushLock, sendRes, builds, prev, stale, own,
                                 happy, calls>>
             ELSE /\ pushLock' = 0
                  /\ SendFails(p, TokenError(a[1], a[2]))
                  /\ UNCHANGED pend
    /\ UNCHANGED <<accessToken, isFirstAccessTokenErr, initLock, req, urlTok,
                   payloadMedia, errCode, errMsg, mediaRet, mediaID, fetches,
                   ops>>

\* Variant of RefreshStore: the fetched token never reaches the field (as
\* with getAccessToken on a copy of the sender).
RefreshStoreLost(p) ==
    /\ pc[p] = "refreshStore"
    /\ pend' = [pend EXCEPT ![p] = ""]
    /\ pushLock' = 0
    /\ pc' = [pc EXCEPT ![p] = "initLock"]
    /\ UNCHANGED <<accessToken, isFirstAccessTokenErr, initLock, req, urlTok,
                   payloadMedia, errCode, errMsg, sendRes, mediaRet, mediaID,
                   hist>>

\* Variant of RefreshStore: the refresh branch goes on to its recursive send
\* without the Unlock of line 120.
RefreshStoreKeepsLock(p) ==
    /\ pc[p] = "refreshStore"
    /\ \E t \in StoredToken(p) : accessToken' = t
    /\ Stored(p, TRUE)
    /\ pend' = [pend EXCEPT ![p] = ""]
    /\ pc' = [pc EXCEPT ![p] = "initLock"]
    /\ UNCHANGED <<isFirstAccessTokenErr, pushLock, initLock, req, urlTok,
                   payloadMedia, errCode, errMsg, sendRes, mediaRet, mediaID,
                   fetches, ops, builds, prev, calls, happy, emptyIssued>>

\* Line 73 inside the call of line 119, then Unlock (line 120) and the
\* recursive send (line 124).
RefreshStore(p) ==
    /\ UNCHANGED emptyIssued
    /\ pc[p] = "refreshStore"
    /\ \E t \in StoredToken(p) : accessToken' = t
    /\ Stored(p, TRUE)
    /\ pend' = [pend EXCEPT ![p] = ""]
    /\ pushLock' = 0
    /\ pc' = [pc EXCEPT ![p] = "initLock"]
    /\ UNCHANGED <<isFirstAccessTokenErr, initLock, req, urlTok, payloadMedia,
                   errCode, errMsg, sendRes, mediaRet, mediaID, fetches, ops,
                   builds, prev, calls, happy>>

\* w.isFirstAccessTokenErr = true (line 130), pushLock already released, then
\* the recursive send (line 131).
SendSetFirst(p) ==
    /\ pc[p] = "setFirst"
    /\ isFirstAccessTokenErr' = TRUE
    /\ pc' = [pc EXCEPT ![p] = "initLock"]
    /\ UNCHANGED <<accessToken, pushLock, initLock, local, hist>>

\* ------------------------------------------------ the callers of send
\* The public operation is over: its variables and its history are gone.
OpEnds(p) ==
    /\ req' = [req EXCEPT ![p] = "none"]
    /\ sendRes' = [sendRes EXCEPT ![p] = NoRes]
    /\ errMsg' = [errMsg EXCEPT ![p] = 0]
    /\ mediaRet' = [mediaRet EXCEPT ![p] = 0]
    /\ mediaID' = [mediaID EXCEPT ![p] = 0]
    /\ calls' = [calls EXCEPT ![p] = <<>>]
    /\ happy' = [happy EXCEPT ![p] = TRUE]

\* Text, lines 184-187: the error of send, or nil, goes to the caller.
TextReturn(p) ==
    /\ UNCHANGED emptyIssued
    /\ pc[p] = "returned"
    /\ req[p] = "text"
    /\ OpEnds(p)
    /\ pc' = [pc EXCEPT ![p] = "idle"]
    /\ UNCHANGED <<shared, urlTok, payloadMedia, errCode, pend, fetches, ops,
                   builds, prev, stale, own>>

\* File, lines 302-305: the error of send, or nil, goes to the caller.
FileReturn(p) ==
    /\ UNCHANGED emptyIssued
    /\ pc[p] = "returned"
    /\ req[p] = "filemsg"
    /\ OpEnds(p)
    /\ pc' = [pc EXCEPT ![p] = "idle"]
    /\ UNCHANGED <<shared, urlTok, payloadMedia, errCode, pend, fetches, ops,
                   builds, prev, stale, own>>

\* m["media_id"].(string) (line 243): the value getMediaID hands to File.
ExtractMediaID(p) == mediaRet[p]

\* getMediaID, lines 234-243, and File, lines 260-263.  An error of send is
\* returned by both.  Otherwise the body is decoded again and media_id is
\* asserted to be a string: the assertion panics when it is not; when it is,
\* File goes on to its own send with the message-send closure.
GetMediaIDReturn(p) ==
    /\ UNCHANGED emptyIssued
    /\ pc[p] = "returned"
    /\ req[p] = "upload"
    /\ IF sendRes[p] # Ok
       THEN /\ OpEnds(p)
            /\ pc' = [pc EXCEPT ![p] = "idle"]
       ELSE IF mediaRet[p] = 0
       THEN /\ OpEnds(p)
            /\ pc' = [pc EXCEPT ![p] = "panicked"]
       ELSE /\ mediaID' = [mediaID EXCEPT ![p] = ExtractMediaID(p)]
            /\ req' = [req EXCEPT ![p] = "filemsg"]
            /\ sendRes' = [sendRes EXCEPT ![p] = NoRes]
            /\ pc' = [pc EXCEPT ![p] = "initLock"]
            /\ UNCHANGED <<errMsg, mediaRet, calls, happy>>
    /\ UNCHANGED <<shared, urlTok, payloadMedia, errCode, pend, fetches, ops,
                   builds, prev, stale, own>>

\* ------------------------------------------------------- specification
Next ==
    \E p \in Procs :
        \/ Text(p)
        \/ File(p)
        \/ SendInitLock(p)
        \/ SendInitCheck(p)
        \/ InitFetchResp(p)
        \/ InitStore(p)
        \/ GetResp(p)
        \/ HttpResp(p)
        \/ SendPushLock(p)
        \/ SendOk(p)
        \/ SendRefresh(p)
        \/ SendNoRefresh(p)
        \/ SendOtherErr(p)
        \/ RefreshResp(p)
        \/ RefreshStore(p)
        \/ SendSetFirst(p)
        \/ TextReturn(p)
        \/ GetMediaIDReturn(p)
        \/ FileReturn(p)

Spec == Init /\ [][Next]_vars

\* The steps of caller p inside an operation: every action but the start of
\* a new Text or File.
Proceeds(p) ==
    \/ SendInitLock(p)
    \/ SendInitCheck(p)
    \/ InitFetchResp(p)
    \/ InitStore(p)
    \/ GetResp(p)
    \/ HttpResp(p)
    \/ SendPushLock(p)
    \/ SendOk(p)
    \/ SendRefresh(p)
    \/ SendNoRefresh(p)
    \/ SendOtherErr(p)
    \/ RefreshResp(p)
    \/ RefreshStore(p)
    \/ SendSetFirst(p)
    \/ TextReturn(p)
    \/ GetMediaIDReturn(p)
    \/ FileReturn(p)

\* The goroutine of every caller keeps running and every HTTP call is
\* answered: a step of a caller that stays possible is taken.  The provider
\* answers the submissions of one dispatch with a credential-error code
\* finitely many times (SendPushLock: below MaxBuilds submissions only).
SpecFair == Spec /\ \A p \in Procs : WF_vars(Proceeds(p))

\* Sequential use of the sender: a caller takes steps only while no other
\* caller is inside an operation.
Alone(p) == \A q \in Procs \ {p} : pc[q] \in {"idle", "panicked"}

NextSeq == Next /\ \A p \in Procs : pc'[p] # pc[p] => Alone(p)

SpecSeq == Init /\ [][NextSeq]_vars

\* ------------------------------------------------------------ properties
\* Caller p takes a step (every action moves its caller's position).
Steps(p) == pc'[p] # pc[p]

\* What one caller's step leaves alone of the sender: the stored credential,
\* the flag, and the number of token fetches.
SenderUntouched ==
    /\ accessToken' = accessToken
    /\ isFirstAccessTokenErr' = isFirstAccessTokenErr
    /\ fetches' = fetches

\* C3: a dispatch that decides on a response with errcode 0 returns (resp,
\* nil) in that step: it starts no token fetch, makes no further submission,
\* and leaves the stored credential and the flag as they are.
C3_OkReturnsAtOnce ==
    [][\A p \in Procs :
          (pc[p] = "decide" /\ errCode[p] = 0 /\ Steps(p)) =>
             /\ pc'[p] = "returned"
             /\ sendRes'[p] = Ok
             /\ calls'[p] = calls[p]
             /\ SenderUntouched]_vars

\* C3 happens: a send has just returned a response with errcode 0.
C3_Witness == \E p \in Procs : pc[p] = "returned" /\ sendRes[p] = Ok

\* C4: a dispatch that decides on a response whose errcode is neither 0 nor
\* 42001, 40014, 41001 returns an error made of the provider's errmsg in that
\* step, with no token fetch, no resubmission, and the stored credential and
\* the flag as they are.
C4_OtherErrReturnsErrmsg ==
    [][\A p \in Procs :
          (pc[p] = "decide" /\ errCode[p] \notin {0} \cup CredErr /\ Steps(p)) =>
             /\ pc'[p] = "returned"
             /\ sendRes'[p] = <<"errmsg", errMsg[p]>>
             /\ calls'[p] = calls[p]
             /\ SenderUntouched]_vars

\* C4 happens: a send has just returned the provider's second errmsg.
C4_Witness ==
    \E p \in Procs : pc[p] = "returned" /\ sendRes[p] = <<"errmsg", NumMsg>>

\* Caller p submits: the step of GetResp.
Submits(p) == pc[p] = "build" /\ pc'[p] = "http"

\* Caller p starts the refresh of the recovery protocol: the step of
\* SendRefresh.
StartsRefresh(p) == pc[p] = "decide" /\ pc'[p] = "refreshHttp"

\* C1 as claimed, in the runs in which every token the endpoint issued was
\* non-empty: the resubmission that follows a dispatch's refresh is built
\* while the credential field still holds what that refresh stored.
C1_Original ==
    [][\A p \in Procs :
          (Submits(p) /\ prev[p] = "refresh" /\ ~emptyIssued) => own[p]]_vars

\* C1, amended: a dispatch that decides on a credential error with the flag
\* true starts one token fetch, pushLock held; when the fetched token is
\* stored the dispatch goes on to resubmit, and the resubmission reads the
\* credential field as it is then: the field was stored again after the
\* failed submission was built (by that refresh or by a later fetch of any
\* caller), and the URL carries its content, or a torn read of it when
\* another caller is storing at that moment.
C1_ResubmitsWithRestoredCredential ==
    [][\A p \in Procs :
          /\ (pc[p] = "decide" /\ errCode[p] \in CredErr
                /\ isFirstAccessTokenErr /\ Steps(p)) =>
                /\ pc'[p] = "refreshHttp"
                /\ fetches' = fetches + 1
                /\ pushLock' = p
          /\ (pc[p] = "refreshStore" /\ Steps(p)) =>
                pc'[p] = "initLock" /\ pushLock' = 0
          /\ (Submits(p) /\ prev[p] = "refresh") =>
                /\ stale[p]
                /\ urlTok'[p] \in {accessToken, "torn"}]_vars

\* C1 happens: the resubmission after the caller's refresh is in flight.
C1_Witness ==
    \E p \in Procs : pc[p] = "http" /\ prev[p] = "refresh" /\ builds[p] = 2

\* C2 as claimed, in the runs in which every token the endpoint issued was
\* non-empty: ensureCredential calls the token endpoint only as the first call
\* of all (every later call follows a credential error, so it is the
\* recovery's).
C2_Original ==
    \A p \in Procs : (pc[p] = "initHttp" /\ ~emptyIssued) => fetches = 1

\* C2, amended: the token endpoint is called for two reasons only: by
\* ensureCredential, initLock held, when it finds no credential stored (the
\* first time, and again after a failed fetch or a fetch that stored an empty
\* token), and by the recovery protocol, pushLock held, in the step in which
\* the dispatch decides on a credential-error response with the flag true.
C2_FetchOnlyWhenEmptyOrCredErr ==
    [][fetches' # fetches =>
          \E p \in Procs :
             /\ Steps(p)
             /\ fetches' = fetches + 1
             /\ \/ /\ pc[p] = "initCheck"
                   /\ initLock = p
                   /\ accessToken = ""
                   /\ pc'[p] = "initHttp"
                \/ /\ pc[p] = "decide"
                   /\ pushLock = p
                   /\ errCode[p] \in CredErr
                   /\ isFirstAccessTokenErr
                   /\ pc'[p] = "refreshHttp"]_vars

\* C2 happens: ensureCredential fetches although the token endpoint was
\* called before.
C2_Witness == \E p \in Procs : pc[p] = "initHttp" /\ fetches = 2

\* C5 as claimed: within one dispatch the credential errors are handled in
\* turn by refresh, no refresh, refresh, ...: the first by a refresh, and
\* each later one the other way than the one before it.
C5_Alternates ==
    [][\A p \in Procs :
          (pc[p] = "decide" /\ errCode[p] \in CredErr /\ Steps(p)) =>
             IF prev[p] = "refresh"
             THEN pc'[p] = "setFirst"
             ELSE pc'[p] = "refreshHttp"]_vars

\* C6 as claimed, in the runs in which every token the endpoint issued was
\* non-empty: one refresh per expiry.  No dispatch starts a refresh for the
\* credential error of a submission whose credential has been replaced since
\* (another dispatch has refreshed it already).
C6_OneRefreshPerExpiry ==
    [][\A p \in Procs :
          (StartsRefresh(p) /\ ~emptyIssued) => ~stale[p]]_vars

\* C7 as claimed: at most one call of the token endpoint is in flight.
C7_OneFetchInFlight ==
    Cardinality({p \in Procs : pc[p] \in {"initHttp", "refreshHttp"}}) <= 1

\* C8: a File whose upload was answered with errcode 0 and a media_id goes on
\* to the message send, and only such a File does; the payload of the message
\* send carries the media_id that upload returned; and a File that returns
\* with every token fetch having yielded a token and every response having
\* had errcode 0 has made exactly two provider calls after the token fetch:
\* the upload, then the message send.
C8_UploadThenSend ==
    \A p \in Procs :
       /\ req[p] = "filemsg" => mediaRet[p] # 0 /\ mediaID[p] = mediaRet[p]
       /\ (pc[p] = "http" /\ req[p] = "filemsg") =>
             payloadMedia[p] = mediaRet[p]
       /\ (pc[p] = "returned" /\ req[p] = "filemsg" /\ happy[p]) =>
             sendRes[p] = Ok /\ calls[p] = <<"upload", "filemsg">>

\* C8 happens: a File on its happy path has returned from its message send,
\* which carried the provider's last media_id.
C8_Witness ==
    \E p \in Procs :
       /\ pc[p] = "returned"
       /\ req[p] = "filemsg"
       /\ happy[p]
       /\ mediaID[p] = NumMedia
       /\ calls[p] = <<"upload", "filemsg">>

\* C9 as claimed: no submission is built with an empty credential.
C9_CredentialPresent == \A p \in Procs : pc[p] = "http" => urlTok[p] # ""

\* C10 as claimed: one dispatch invokes getResp at most twice.
C10_AtMostTwoSubmissions == \A p \in Procs : builds[p] <= 2

\* The error values of a failed HTTP exchange or an undecodable body.
IOErrors == {<<"transport", 0>>, <<"decode", 0>>}

\* The error values of a failed token fetch.
FetchErrors == IOErrors \cup {<<"errmsg", m>> : m \in ErrMsgs}

\* C11: a token fetch (lazy or refresh) either hands on a decoded token or
\* makes the dispatch return the fetch's error in that step, the credential,
\* the flag and the fetch count as they were and the lock of the fetch
\* released; a submission either hands on a decoded body or makes the
\* dispatch return the transport or decoding error in that step likewise;
\* and a caller whose send returned an error goes back to its own caller
\* next, with no further submission and no further token fetch.
C11_FailuresAreTerminal ==
    [][\A p \in Procs :
          /\ (pc[p] = "initHttp" /\ Steps(p)) =>
                \/ pc'[p] = "initStore"
                \/ /\ pc'[p] = "returned"
                   /\ sendRes'[p] \in FetchErrors
                   /\ initLock' = 0
                   /\ SenderUntouched
          /\ (pc[p] = "refreshHttp" /\ Steps(p)) =>
                \/ pc'[p] = "refreshStore"
                \/ /\ pc'[p] = "returned"
                   /\ sendRes'[p] \in FetchErrors
                   /\ pushLock' = 0
                   /\ SenderUntouched
          /\ (pc[p] = "http" /\ Steps(p)) =>
                \/ pc'[p] = "pushLock"
                \/ /\ pc'[p] = "returned"
                   /\ sendRes'[p] \in IOErrors
                   /\ SenderUntouched
          /\ (pc[p] = "returned" /\ sendRes[p] # Ok /\ Steps(p)) =>
                /\ pc'[p] = "idle"
                /\ SenderUntouched]_vars

\* C11 happens: a refresh has failed and its dispatch has returned the
\* error, the credential of the failed submission still stored.
C11_Witness ==
    \E p \in Procs :
       /\ pc[p] = "returned"
       /\ sendRes[p] = <<"decode", 0>>
       /\ fetches = 2
       /\ accessToken = "token"
       /\ ~isFirstAccessTokenErr

\* C12 as claimed, in the runs in which every token the endpoint issued was
\* non-empty: no caller's File ends in a panic (an upload answered with
\* errcode 0 and no string media_id makes getMediaID return an error).
C12_NoPanic == \A p \in Procs : pc[p] = "panicked" => emptyIssued

\* Caller p is at an assignment of w.accessToken (line 73).
WritesToken(p) == pc[p] \in {"initStore", "refreshStore"}

\* Caller p is at an access of w.accessToken: the emptiness check of line 81,
\* the read of a closure composing its URL (lines 152, 201, 266), or the
\* assignment of line 73.
AccessesToken(p) == pc[p] \in {"initCheck", "build"} \/ WritesToken(p)

\* C13 as claimed, in the runs in which every token the endpoint issued was
\* non-empty: no two callers are at an access of the credential field at the
\* same time, one of them at a write.
C13_NoConcurrentAccess ==
    \A p, q \in Procs :
       (p # q /\ WritesToken(p) /\ AccessesToken(q)) => emptyIssued

\* C14 as claimed: a caller with an HTTP request in flight (token fetch,
\* message send or media upload) holds neither lock.
C14_Original ==
    \A p \in Procs :
       pc[p] \in {"initHttp", "refreshHttp", "http"} =>
          initLock # p /\ pushLock # p

\* C14, amended: a caller whose submission (message send or media upload) is
\* in flight holds neither lock; a caller whose token fetch is in flight
\* holds exactly one lock for the whole round trip: the initialization lock
\* for the fetch of ensureCredential, the push lock for the refresh of the
\* recovery protocol.
C14_LocksAcrossHttp ==
    \A p \in Procs :
       /\ pc[p] = "http" => initLock # p /\ pushLock # p
       /\ pc[p] = "initHttp" => initLock = p /\ pushLock # p
       /\ pc[p] = "refreshHttp" => pushLock = p /\ initLock # p

\* C14 happens: one caller's refresh is in flight, push lock held, while
\* another caller's submission is in flight.
C14_Witness ==
    \E p, q \in Procs :
       pc[p] = "refreshHttp" /\ pushLock = p /\ pc[q] = "http"

\* Caller p is at a read or a write of w.isFirstAccessTokenErr: the test of
\* line 109 with the write of line 118, or the write of line 130.
AccessesFlag(p) == pc[p] \in {"decide", "setFirst"}

\* C15 as claimed, in the runs in which every token the endpoint issued was
\* non-empty: a caller at a read or a write of the flag holds the push lock.
C15_FlagUnderPushLock ==
    \A p \in Procs : (AccessesFlag(p) /\ ~emptyIssued) => pushLock = p

\* C16 as claimed, in the runs in which every token the endpoint issued was
\* non-empty: in sequential use, when a dispatch has returned a response with
\* errcode 0 (the streak, if any, is over and no dispatch is in progress) the
\* flag is at "first occurrence".
C16_FlagBackAfterStreak ==
    \A p \in Procs :
       (pc[p] = "returned" /\ sendRes[p] = Ok /\ ~emptyIssued) =>
          isFirstAccessTokenErr

\* Caller p is inside the check-and-fetch of the init closure.
InEnsure(p) == pc[p] \in {"initCheck", "initHttp", "initStore"}

\* Caller p is past the init closure of its current send.
PastEnsure(p) ==
    pc[p] \in {"build", "http", "pushLock", "decide", "refreshHttp",
               "refreshStore", "setFirst"}

\* C17: the check-and-fetch of the init closure is made by one caller at a
\* time, the initialization lock held.  While every token the endpoint
\* issued is non-empty: a lazy fetch is started, in flight or storing only
\* while no credential is stored, a stored credential stays, so that no lazy
\* fetch follows one that succeeded; and every caller that is past the
\* closure, at buildRequest or later, finds the credential stored.
C17_SingleCheckAndFetch ==
    /\ [](\A p \in Procs :
             /\ InEnsure(p) => initLock = p
             /\ (pc[p] \in {"initHttp", "initStore"} /\ ~emptyIssued) =>
                   accessToken = ""
             /\ (PastEnsure(p) /\ ~emptyIssued) => accessToken # "")
    /\ [][\A p \in Procs :
             (pc[p] = "initCheck" /\ pc'[p] = "initHttp" /\ ~emptyIssued) =>
                /\ accessToken = ""
                /\ fetches' = fetches + 1]_vars
    /\ [][(accessToken # "" /\ ~emptyIssued') => accessToken' # ""]_vars

\* C17 happens: two callers made their first send on the fresh sender at the
\* same time, one token fetch was made, and both submissions are in flight
\* with the credential it stored.
C17_Witness ==
    /\ fetches = 1
    /\ ~emptyIssued
    /\ \A p \in Procs : pc[p] = "http" /\ builds[p] = 1 /\ urlTok[p] = "token"

\* C18: a caller that re-enters send from either recovery branch has
\* released the push lock in that step or before it, and no caller holds the
\* push lock while it waits for or holds the initialization lock or while its
\* getResp runs.
C18_PushLockReleasedBeforeRedispatch ==
    /\ [](\A p \in Procs :
             (pc[p] = "initLock" \/ InEnsure(p) \/ pc[p] \in {"build", "http"})
                => pushLock # p)
    /\ [][\A p \in Procs :
             (pc[p] \in {"refreshStore", "setFirst"} /\ pc'[p] = "initLock")
                => pushLock' # p]_vars

\* C18 happens: a caller re-dispatched after its refresh is at getResp while
\* the other caller holds the push lock.
C18_Witness ==
    \E p, q \in Procs :
       /\ pc[p] = "build"
       /\ prev[p] = "refresh"
       /\ pushLock = q
       /\ q # p

\* The run has made its MaxFetch calls of the token endpoint and some caller
\* is at the start of one more.
FetchesUsedUp ==
    /\ fetches = MaxFetch
    /\ \E q \in Procs :
          \/ pc[q] = "initCheck" /\ accessToken = ""
          \/ pc[q] = "decide" /\ errCode[q] \in CredErr /\ isFirstAccessTokenErr

\* C19: under weak fairness of every caller's steps, with the provider
\* answering the submissions of a dispatch with a credential-error code
\* finitely many times, a caller that entered send returns from it (as far
\* as the run goes: up to the call of the token endpoint after the last one
\* counted); and a
\* dispatch is left only from a response that is no credential error or from
\* a failed fetch or submission: a credential-error response always leads
\* to the refresh or to the flip of the flag and from there back into send.
C19_ReturnsWhenProviderRelents ==
    /\ \A p \in Procs :
          (pc[p] = "initLock") ~> (pc[p] = "returned" \/ FetchesUsedUp)
    /\ [][\A p \in Procs :
             /\ (pc'[p] = "returned" /\ pc[p] # "returned") =>
                   \/ pc[p] = "decide" /\ errCode[p] \notin CredErr
                   \/ pc[p] \in {"initHttp", "refreshHttp", "http"}
             /\ (pc[p] = "decide" /\ errCode[p] \in CredErr /\ Steps(p)) =>
                   pc'[p] \in {"refreshHttp", "setFirst"}
             /\ (pc[p] \in {"refreshStore", "setFirst"} /\ Steps(p)) =>
                   pc'[p] = "initLock"]_vars

\* C19 happens: a dispatch has resubmitted as often as the provider answered
\* with a credential error, up to MaxBuilds submissions, and is about to
\* return the first response that is none.
C19_Witness ==
    \E p \in Procs :
       /\ pc[p] = "decide"
       /\ builds[p] = MaxBuilds
       /\ errCode[p] = 0
       /\ fetches < MaxFetch

\* Caller p waits for a lock.
WaitsForLock(p) == pc[p] \in {"initLock", "pushLock"}

\* C20: a caller holds the initialization lock exactly while it is inside the
\* check-and-fetch of the init closure and the push lock exactly from the
\* Lock of line 105 to the Unlock of its branch, so never both, and none
\* when its send has returned or re-enters send; and whenever some caller
\* waits for a lock, some caller can take a step (as far as the run goes:
\* up to the call of the token endpoint after the last one counted).
C20_NoDeadlock ==
    /\ \A p \in Procs :
          /\ initLock = p <=> InEnsure(p)
          /\ pushLock = p <=> pc[p] \in {"decide", "refreshHttp", "refreshStore"}
          /\ ~(initLock = p /\ pushLock = p)
          /\ pc[p] \in {"idle", "initLock", "returned", "panicked"} =>
                initLock # p /\ pushLock # p
    /\ (\E p \in Procs : WaitsForLock(p)) =>
          \/ ENABLED (\E q \in Procs : Proceeds(q))
          \/ FetchesUsedUp

\* C20 happens: one caller waits for the push lock, which the other caller
\* holds across its refresh.
C20_Witness ==
    \E p, q \in Procs :
       pc[p] = "pushLock" /\ pushLock = q /\ pc[q] = "refreshHttp"

=============================================================================
